---- MODULE Spec2Model ----
(***************************************************************************)
(* A model of AutomaticMemory (src/MemManage.hpp): the global Heap with    *)
(* its std::vector<Segment>, the move-only Heap::Pointer handles, the      *)
(* Errors::base_error family and the Allocator adapter.                    *)
(*                                                                         *)
(* Conventions                                                             *)
(*  - A segment's raw buffer address (Segment::data()) is a fresh number   *)
(*    per allocation; it is what Pointer::m_Ptr holds.                     *)
(*  - Pointer::memsegment is a C++ reference to an element of m_Segments,  *)
(*    i.e. an address inside the vector's current buffer.  It is modelled  *)
(*    as the element's position while that buffer is alive and as Dangling *)
(*    once the vector has moved its elements to another buffer.  Reading   *)
(*    through a dangling reference is undefined behaviour: the value read  *)
(*    is any member of StaleSegments.                                      *)
(*  - size_t arithmetic wraps; the model keeps SizeBits bits.              *)
(*  - handles[h].from, from_dismissed and dismissed, errors[e].dismissed,  *)
(*    exit_by and objects only record what happened; no action reads them. *)
(*  - returned holds what the latest call handed back to its caller (the   *)
(*    pointer of Allocator::allocate, the exception of deallocate, the     *)
(*    float of used_memory) with the heap as it was when the call began.   *)
(*    It is read only to tell a deallocate that directly follows the       *)
(*    allocate of the same pointer; it decides no outcome.                 *)
(***************************************************************************)
EXTENDS Integers, Sequences, FiniteSets, TLC

\* ---------------------------------------------------------------- bounds
MaxAllocs  == 2      \* segments created over a run
MaxHandles == 3      \* Pointer instances created over a run
MaxErrors  == 2      \* free-standing error instances created over a run
MaxInstances == 4    \* Pointer and error instances together, error channel
MaxCount   == 2      \* largest element count / allocator n
MaxSizeOf  == 2      \* largest sizeof(T_)
MaxShift   == 11     \* largest allocator request is 2^MaxShift bytes
SizeBits   == 12     \* width kept of size_t

SizeMod     == 2 ^ SizeBits
SizeOfT     == 1..MaxSizeOf
Counts      == 1..MaxCount
MaxSegSize  == MaxSizeOf * MaxCount
Dangling    == 0
NullPtr     == 0
Indeterminate == -1

VARIABLES
    m_Segments,      \* Heap::m_Segments, a sequence of Segment records
    capacity,        \* m_Segments.capacity()
    memory_in_use,   \* Heap::memory_in_use
    handles,         \* the Pointer instances of the program
    errors,          \* free-standing base_error instances
    exits_on_error,  \* base_error::exits_on_error
    exited,          \* the process has terminated
    exit_code,       \* argument of std::exit, 0 for a return from main
    exit_by,         \* which instance's destructor called std::exit
    nextData,        \* next fresh buffer address
    objects,         \* per buffer address: what the program did with it
    returned         \* what the latest call returned to its caller

vars == <<m_Segments, capacity, memory_in_use, handles, errors,
          exits_on_error, exited, exit_code, exit_by, nextData, objects,
          returned>>

\* ------------------------------------------------------ Errors::base_error
base_error_default == [message |-> "", _error_code |-> -1, exit |-> FALSE]

base_error_ctor(error_message, error_code) ==
    [message |-> error_message, _error_code |-> error_code, exit |-> TRUE]

BadConstruct(message) == base_error_ctor(message, -2)

IndexOutOfBounds_default == base_error_ctor("Index out of bounds", -3)

\* dont_exit() with the assignment lost
dont_exit_lost(e) == e

dont_exit(e) == [e EXCEPT !.exit = FALSE]

what(e) == e.message

error_code(e) == e._error_code

\* base_error& operator=(base_error&& other) with this # &other:
\* <<*this afterwards, other afterwards>>.  exit of *this is not assigned.
base_error_assign(this, other) ==
    << [this EXCEPT !.message = other.message,
                    !._error_code = other._error_code],
       dont_exit(other) >>

\* The same operator with this = &other: the code keeps the object, and
\* other.dont_exit() disarms it.  (A self-move leaves the string valid but
\* unspecified; the only self-assigned objects are temporaries that are
\* destroyed unread.)
base_error_assign_self(e) == dont_exit(e)

\* base_error(base_error&&) without other.dont_exit()
base_error_move_source_armed(other) ==
    << [message |-> other.message, _error_code |-> other._error_code,
        exit |-> other.exit],
       other >>

\* base_error(base_error&& other): <<new object, other afterwards>>
base_error_move(other) ==
    << [message |-> other.message, _error_code |-> other._error_code,
        exit |-> other.exit],
       dont_exit(other) >>

\* BadConstruct(BadConstruct&&) and IndexOutOfBounds(IndexOutOfBounds&&):
\* both delegate to base_error(message, code), which arms the new object.
derived_error_move(other) ==
    << base_error_ctor(other.message, other._error_code), dont_exit(other) >>

\* ------------------------------------------------------------ Heap::Segment
\* Segment(size): m_Memory.reserve(size) leaves the vector empty.
Segment(size, data) == [m_Memory |-> <<>>, size |-> size, data |-> data]

\* bool Segment::operator==(Segment const&)
SegmentEq(a, b) == a.m_Memory = b.m_Memory /\ a.size = b.size

\* What a read through a dangling Segment& can yield.
StaleSegments ==
    { [m_Memory |-> mm, size |-> s, data |-> NullPtr] :
        mm \in {<<>>, <<0>>}, s \in 0..MaxSegSize }

\* ------------------------------------------------------------ std::vector
\* capacity after emplace_back on a full vector (libstdc++ growth policy)
GrownCapacity(cap) == IF cap = 0 THEN 1 ELSE 2 * cap

\* std::find(begin, end, seg): first position whose element equals seg, 0 = end
Find(segs, seg) ==
    IF \E i \in 1..Len(segs) : SegmentEq(segs[i], seg)
    THEN CHOOSE i \in 1..Len(segs) :
            /\ SegmentEq(segs[i], seg)
            /\ \A j \in 1..(i-1) : ~SegmentEq(segs[j], seg)
    ELSE 0

\* std::find_if with a predicate that accepts every segment
FindData_any(segs, p) == IF segs # <<>> THEN 1 ELSE 0

\* std::find_if(begin, end, data() == p)
FindData(segs, p) ==
    IF \E i \in 1..Len(segs) : segs[i].data = p
    THEN CHOOSE i \in 1..Len(segs) :
            /\ segs[i].data = p
            /\ \A j \in 1..(i-1) : segs[j].data # p
    ELSE 0

\* m_Segments.erase(it)
Erase(segs, i) == SubSeq(segs, 1, i-1) \o SubSeq(segs, i+1, Len(segs))

\* every outstanding Segment& is left dangling by a change of buffer
Invalidate(hs) == [h \in DOMAIN hs |-> [hs[h] EXCEPT !.memsegment = Dangling]]

Wrap(n) == n % SizeMod

\* ------------------------------------------------------------------ state
Outcomes == {"ok", "std_exception", "other_exception"}

ErrorKinds == {"base_error", "BadConstruct", "IndexOutOfBounds"}

NoHandle ==
    [st |-> "none", m_Ptr |-> NullPtr, memsegment |-> Dangling,
     freed |-> FALSE, moved |-> FALSE, error |-> base_error_default,
     array_size |-> Indeterminate, array |-> FALSE, size_of |-> 1,
     from |-> 0, from_dismissed |-> FALSE, dismissed |-> FALSE]

NoError ==
    [st |-> "none", kind |-> "base_error", err |-> base_error_default,
     dismissed |-> FALSE, from |-> 0]

NoObject ==
    [origin |-> "none", thrown |-> "ok", count |-> 0, constructed |-> 0,
     destructed |-> 0, removed |-> 0, dismissed |-> FALSE]

NoExit == [kind |-> "none", id |-> 0, dismissed |-> FALSE, hook |-> "none"]

\* a float: the value m * 2^e, m of at most 24 bits and odd unless zero
Float0 == [m |-> 0, e |-> 0]

NoReturn ==
    [op |-> "none", p |-> NullPtr, threw |-> "nothing", unit |-> "Byte",
     defaulted |-> FALSE, value |-> Float0, segs |-> <<>>, used |-> 0,
     roundtrip |-> FALSE, index |-> 0, size |-> 0]

\* `inline Heap heap;` has static storage: memory_in_use is zero-initialised
\* before Heap() runs, and Heap() leaves m_Segments empty.
Init ==
    /\ m_Segments = <<>>
    /\ capacity = 0
    /\ memory_in_use = 0
    /\ handles = [h \in 1..MaxHandles |-> NoHandle]
    /\ errors = [e \in 1..MaxErrors |-> NoError]
    /\ exits_on_error = FALSE
    /\ exited = FALSE
    /\ exit_code = 0
    /\ exit_by = NoExit
    /\ nextData = 1
    /\ objects = [d \in 1..MaxAllocs |-> NoObject]
    /\ returned = NoReturn

InScope(h) == handles[h].st = "inscope"

Live(h) == InScope(h) /\ ~handles[h].moved /\ ~handles[h].freed

FreeHandles == { h \in 1..MaxHandles : handles[h].st = "none" }

NewHandle == CHOOSE h \in FreeHandles : \A g \in FreeHandles : h <= g

FreeErrors == { e \in 1..MaxErrors : errors[e].st = "none" }

NewError == CHOOSE e \in FreeErrors : \A g \in FreeErrors : e <= g

\* --------------------------------------------------------------- Heap
\* Segment& Heap::allocate(size_t size): the heap after the call, and the
\* handles with every reference the emplace_back invalidated.
allocate_used(size) == Wrap(memory_in_use + size)

allocate_segments(size) == Append(m_Segments, Segment(size, nextData))

allocate_relocates == Len(m_Segments) = capacity

allocate_capacity ==
    IF allocate_relocates THEN GrownCapacity(capacity) ELSE capacity

allocate_handles ==
    IF allocate_relocates THEN Invalidate(handles) ELSE handles

\* the reference allocate() returns
allocate_ref == Len(m_Segments) + 1

\* Pointer(T_* pointer, Heap* owner, Segment& memsegment)
Pointer(pointer, memsegment, array, size_of) ==
    [st |-> "inscope", m_Ptr |-> pointer, memsegment |-> memsegment,
     freed |-> FALSE, moved |-> FALSE, error |-> base_error_default,
     array_size |-> Indeterminate, array |-> array, size_of |-> size_of,
     from |-> 0, from_dismissed |-> FALSE, dismissed |-> FALSE]

\* Pointer(Pointer&& other): the new instance.  memsegment, owner, m_Ptr and
\* freed come from other; error, array_size and moved are not in the
\* initialiser list, so error is default-constructed, moved takes its
\* default member initialiser and array_size is left uninitialised.
Pointer_move(other, src) ==
    [st |-> "inscope", m_Ptr |-> other.m_Ptr,
     memsegment |-> other.memsegment, freed |-> other.freed,
     moved |-> FALSE, error |-> base_error_default,
     array_size |-> Indeterminate, array |-> other.array,
     size_of |-> other.size_of, from |-> src,
     from_dismissed |-> other.dismissed, dismissed |-> FALSE]

\* the constructor body with `other.moved = !other.moved`
Pointer_moved_from_toggled(other) ==
    [other EXCEPT !.moved = ~@, !.error = dont_exit(other.error),
                  !.dismissed = TRUE]

\* ... and what the constructor body does to other
Pointer_moved_from(other) ==
    [other EXCEPT !.moved = TRUE, !.error = dont_exit(other.error),
                  !.dismissed = TRUE]

\* Pointer& SetError(base_error&& error) { error = std::move(error); }
\* SetError with `this->error = std::move(error)`
SetError_member(p, error) ==
    << [p EXCEPT !.error = base_error_assign(p.error, error)[1]],
       base_error_assign(p.error, error)[2] >>

\* Inside the body `error` names the parameter, so the assignment is a
\* self-assignment of the argument: <<the handle, the argument afterwards>>.
SetError(p, error) == << p, base_error_assign_self(error) >>

\* Pointer SetSize(size_t size) { array_size = size; return *this; }
\* The value returned is a new Pointer made from *this; the only
\* constructor taking a Pointer is Pointer(Pointer&&).
SetSize(p, size) == Pointer_move([p EXCEPT !.array_size = size], 0)

\* void Heap::free_all()
free_all_segments == <<>>

\* Heap::setatexit runs inside Heap(): the call of std::atexit is sequenced
\* before the completion of heap's initialisation, so at termination
\* ~Heap() is sequenced before the hook and m_Segments is already destroyed
\* when the hook runs.
Heap_destroyed == <<>>

\* exit status of a process ended by abort()
Aborted == 134

\* What the hook does.  With exits_on_error it calls heap.free_all() on the
\* destroyed heap, which is undefined: m_Segments.clear() destroys once
\* more the elements the dead vector still points at.  With no element left
\* there is nothing to destroy; otherwise the call goes through or the
\* second release of a segment's buffer aborts the process.
HookOutcomes(flag) ==
    IF ~flag THEN {"skipped"}
    ELSE IF m_Segments = <<>> THEN {"released"}
    ELSE {"released", "aborted"}

\* ~base_error() of an armed instance: exits_on_error = true; std::exit(code).
\* std::exit does not return and unwinds nothing: ~Heap() and the hook run
\* and the program's handles and errors are gone with the process.
\* free_all() writes memory_in_use before it touches m_Segments.
ExitFromError(code, by) ==
    /\ exits_on_error' = TRUE
    /\ exited' = TRUE
    /\ \E hook \in HookOutcomes(TRUE) :
          /\ exit_code' = IF hook = "aborted" THEN Aborted ELSE code
          /\ exit_by' = [kind |-> by.kind, id |-> by.id,
                         dismissed |-> by.dismissed, hook |-> hook]
    /\ memory_in_use' = 0
    /\ m_Segments' = free_all_segments
    /\ capacity' = 0
    /\ handles' = [h \in 1..MaxHandles |-> NoHandle]
    /\ errors' = [e \in 1..MaxErrors |-> NoError]

\* what a read through a Segment& yields
Deref(ref) == IF ref # Dangling THEN {m_Segments[ref]} ELSE StaleSegments

\* the message built in the catch blocks of allocate_constructed[_n]
CatchMessage(e_what) ==
    "Exception while constructing, construction stopped!\n  What: " \o e_what

ThrownWhat == "some error"

\* -------------------------------------------- Heap::allocate_constructed
\* the handle the caller receives when no exception escapes
allocate_constructed_result(size_of, outcome) ==
    LET made == Pointer(nextData, allocate_ref, FALSE, size_of)
    IN  IF outcome = "ok"
        THEN Pointer_move(made, 0)
        ELSE Pointer_move(SetError(made, BadConstruct(CatchMessage(ThrownWhat)))[1], 0)

\* the BadConstruct temporary of the catch block when its full expression ends
allocate_constructed_temporary(size_of) ==
    SetError(Pointer(nextData, allocate_ref, FALSE, size_of),
             BadConstruct(CatchMessage(ThrownWhat)))[2]

AllocateConstructed(size_of, outcome) ==
    /\ ~exited
    /\ returned' = NoReturn
    /\ nextData <= MaxAllocs
    /\ outcome # "other_exception" => FreeHandles # {}
    /\ nextData' = nextData + 1
    /\ objects' = [objects EXCEPT ![nextData] =
            [NoObject EXCEPT
                !.origin = "allocate_constructed",
                !.thrown = outcome,
                !.count = 1,
                !.constructed = IF outcome = "ok" THEN 1 ELSE 0]]
    /\ IF outcome = "std_exception" /\ allocate_constructed_temporary(size_of).exit
       THEN ExitFromError(allocate_constructed_temporary(size_of)._error_code,
                          [kind |-> "temporary", id |-> nextData, dismissed |-> FALSE])
       ELSE /\ handles' =
                 IF outcome = "other_exception"
                 THEN allocate_handles   \* catch (std::exception const&) does not match
                 ELSE [allocate_handles EXCEPT
                          ![NewHandle] = allocate_constructed_result(size_of, outcome)]
            /\ UNCHANGED errors
            /\ memory_in_use' = allocate_used(size_of)
            /\ m_Segments' = allocate_segments(size_of)
            /\ capacity' = allocate_capacity
            /\ UNCHANGED <<exits_on_error, exited, exit_code, exit_by>>

\* ------------------------------------------ Heap::allocate_constructed_n
allocate_constructed_n_result(size_of, count, outcome) ==
    LET sized == SetSize(Pointer(nextData, allocate_ref, TRUE, size_of), count)
    IN  IF outcome = "ok"
        THEN sized
        ELSE Pointer_move(SetError(sized, BadConstruct(CatchMessage(ThrownWhat)))[1], 0)

allocate_constructed_n_temporary(size_of, count) ==
    SetError(SetSize(Pointer(nextData, allocate_ref, TRUE, size_of), count),
             BadConstruct(CatchMessage(ThrownWhat)))[2]

\* built: the number of elements whose constructor completed
AllocateConstructedN(size_of, count, outcome, built) ==
    /\ ~exited
    /\ returned' = NoReturn
    /\ nextData <= MaxAllocs
    /\ outcome # "other_exception" => FreeHandles # {}
    /\ IF outcome = "ok" THEN built = count ELSE built < count
    /\ nextData' = nextData + 1
    /\ objects' = [objects EXCEPT ![nextData] =
            [NoObject EXCEPT
                !.origin = "allocate_constructed_n",
                !.thrown = outcome,
                !.count = count,
                !.constructed = built]]
    /\ IF outcome = "std_exception" /\ allocate_constructed_n_temporary(size_of, count).exit
       THEN ExitFromError(allocate_constructed_n_temporary(size_of, count)._error_code,
                          [kind |-> "temporary", id |-> nextData, dismissed |-> FALSE])
       ELSE /\ handles' =
                 IF outcome = "other_exception"
                 THEN allocate_handles
                 ELSE [allocate_handles EXCEPT
                          ![NewHandle] = allocate_constructed_n_result(size_of, count, outcome)]
            /\ UNCHANGED errors
            /\ memory_in_use' = allocate_used(size_of * count)
            /\ m_Segments' = allocate_segments(Wrap(size_of * count))
            /\ capacity' = allocate_capacity
            /\ UNCHANGED <<exits_on_error, exited, exit_code, exit_by>>

\* ---------------------------------------------- Pointer(Pointer&& other)
MovePointer(src) ==
    /\ ~exited
    /\ returned' = NoReturn
    /\ InScope(src)
    /\ FreeHandles # {}
    /\ handles' = [handles EXCEPT
            ![NewHandle] = Pointer_move(handles[src], src),
            ![src] = Pointer_moved_from(handles[src])]
    /\ UNCHANGED <<m_Segments, capacity, memory_in_use, errors, exits_on_error,
                   exited, exit_code, exit_by, nextData, objects>>

\* ------------------------------------------------ T_& operator[](index)
\* `index > array_size`: index is a size_t, so `index < 0` is never true;
\* an array_size that was never written is read as any value.
subscript_rejects(p, index) ==
    IF p.array_size = Indeterminate THEN BOOLEAN ELSE {index > p.array_size}

\* the IndexOutOfBounds temporary after SetError, when the check rejected
subscript_temporary(p) == SetError(p, IndexOutOfBounds_default)[2]

\* the reference returned is *(m_Ptr + index) whatever the check said
Subscript(h, index) ==
    /\ ~exited
    /\ InScope(h)
    /\ handles[h].array
    /\ \E rejected \in subscript_rejects(handles[h], index) :
          IF rejected /\ subscript_temporary(handles[h]).exit
          THEN /\ ExitFromError(subscript_temporary(handles[h])._error_code,
                     [kind |-> "temporary", id |-> handles[h].m_Ptr,
                      dismissed |-> FALSE])
               /\ returned' = NoReturn
          ELSE /\ handles' = [handles EXCEPT ![h] =
                     IF rejected THEN SetError(@, IndexOutOfBounds_default)[1]
                     ELSE @]
               /\ returned' = [NoReturn EXCEPT !.op = "operator[]",
                                    !.p = handles[h].m_Ptr, !.index = index]
               /\ UNCHANGED <<m_Segments, capacity, memory_in_use, errors,
                              exits_on_error, exited, exit_code, exit_by>>
    /\ UNCHANGED <<nextData, objects>>

\* ------------------------------------------------ x.Error().dont_exit()
PointerDontExit(h) ==
    /\ ~exited
    /\ returned' = NoReturn
    /\ InScope(h)
    /\ handles[h].m_Ptr # NullPtr
    /\ handles' = [handles EXCEPT ![h].error = dont_exit(@),
                                  ![h].dismissed = TRUE]
    /\ objects' = [objects EXCEPT ![handles[h].m_Ptr].dismissed = TRUE]
    /\ UNCHANGED <<m_Segments, capacity, memory_in_use, errors, exits_on_error,
                   exited, exit_code, exit_by, nextData>>

\* ------------------------------------------------------------ ~Pointer()
\* void Heap::free(Pointer&): the position std::find returns for the value
\* read through pointer.memsegment
free_pointer_it(seg) == Find(m_Segments, seg)

\* memory_in_use -= pointer.memsegment.size, before the search
free_pointer_used(seg) == Wrap(memory_in_use - seg.size)

\* number of destructor calls free_impl makes
free_impl_destructs(p, seg) == IF p.array THEN seg.size \div p.size_of ELSE 1

\* base_pointer::free() returns at once when freed, free_impl() when moved
free_is_noop_freed_only(p) == p.freed

free_is_noop(p) == p.freed \/ p.moved

\* a Pointer whose destructor has run: only what identifies it is kept
Destroyed(p) ==
    [NoHandle EXCEPT !.st = "dropped", !.m_Ptr = p.m_Ptr, !.freed = TRUE,
                     !.moved = p.moved, !.array = p.array,
                     !.size_of = p.size_of, !.from = p.from,
                     !.from_dismissed = p.from_dismissed]

\* The members are destroyed first (~base_error of `error`), then
\* ~base_pointer() calls free().
Drop(h) ==
    /\ ~exited
    /\ returned' = NoReturn
    /\ InScope(h)
    /\ LET p == handles[h]
           gone == [handles EXCEPT ![h] = Destroyed(p)]
       IN  IF p.error.exit
           THEN /\ ExitFromError(p.error._error_code,
                      [kind |-> "Pointer", id |-> h, dismissed |-> p.dismissed])
                /\ UNCHANGED <<nextData, objects>>
           ELSE IF free_is_noop(p)
           THEN /\ handles' = gone
                /\ UNCHANGED <<m_Segments, capacity, memory_in_use, errors,
                               exits_on_error, exited, exit_code, exit_by,
                               nextData, objects>>
           ELSE \E seg \in Deref(p.memsegment) :
                LET it == free_pointer_it(seg)
                    ran == [objects EXCEPT ![p.m_Ptr].destructed =
                                @ + free_impl_destructs(p, seg)]
                IN  /\ memory_in_use' = free_pointer_used(seg)
                    /\ m_Segments' = IF it = 0 THEN m_Segments
                                     ELSE Erase(m_Segments, it)
                    /\ capacity' = IF it = 0 THEN capacity
                                   ELSE Len(m_Segments) - 1   \* shrink_to_fit
                    /\ handles' = IF it = 0 THEN gone ELSE Invalidate(gone)
                    /\ objects' = IF it = 0 THEN ran
                                  ELSE [ran EXCEPT ![m_Segments[it].data].removed = @ + 1]
                    /\ UNCHANGED <<errors, exits_on_error, exited, exit_code,
                                   exit_by, nextData>>

\* ------------------------------------------------------ Heap::used_memory
\* enum class SizeTypes : size_t
SizeTypes == {"Byte", "Kibibyte", "Mibibyte", "Gibibyte",
              "Kilobyte", "Megabyte", "Gigabyte"}

UnitBytes(unit) ==
    CASE unit = "Byte"     -> 1
      [] unit = "Kibibyte" -> 1024
      [] unit = "Mibibyte" -> 1048576
      [] unit = "Gibibyte" -> 1073741824
      [] unit = "Kilobyte" -> 1000
      [] unit = "Megabyte" -> 1000000
      [] unit = "Gigabyte" -> 1000000000

\* significand width of float
Mantissa == 24

\* the float m * 2^e in canonical form
RECURSIVE Canon(_, _)
Canon(m, e) ==
    IF m = 0 THEN Float0
    ELSE IF m % 2 = 0 THEN Canon(m \div 2, e + 1)
    ELSE [m |-> m, e |-> e]

\* static_cast<float>(n): exact below 2^Mantissa, which holds for every
\* size_t of SizeBits bits and for every SizeTypes value
to_float(n) == Canon(n, 0)

\* the float nearest to (q + r/b) * 2^e, 0 <= r < b: quotient bits are
\* produced until the significand is full, then rounded, ties to even
RECURSIVE FloatQuotient(_, _, _, _)
FloatQuotient(q, r, b, e) ==
    IF r = 0 THEN Canon(q, e)
    ELSE IF q >= 2 ^ (Mantissa - 1)
    THEN Canon(IF 2 * r > b \/ (2 * r = b /\ q % 2 = 1) THEN q + 1 ELSE q, e)
    ELSE IF 2 * r >= b
    THEN FloatQuotient(2 * q + 1, 2 * r - b, b, e - 1)
    ELSE FloatQuotient(2 * q, 2 * r, b, e - 1)

\* x / y on floats
float_div(x, y) == FloatQuotient(x.m \div y.m, x.m % y.m, y.m, x.e - y.e)

\* used_memory with the quotient taken on the integers
used_memory_truncating(convert) ==
    to_float(memory_in_use \div UnitBytes(convert))

\* float used_memory(SizeTypes const& convert): the size_t operand is
\* converted to float by the usual arithmetic conversions
used_memory(convert) ==
    float_div(to_float(memory_in_use), to_float(UnitBytes(convert)))

\* the default argument of used_memory
used_memory_default == "Kibibyte"

UsedMemory(convert) ==
    /\ ~exited
    /\ returned' = [NoReturn EXCEPT !.op = "used_memory", !.unit = convert,
                                    !.value = used_memory(convert),
                                    !.used = memory_in_use]
    /\ UNCHANGED <<m_Segments, capacity, memory_in_use, handles, errors,
                   exits_on_error, exited, exit_code, exit_by, nextData, objects>>

\* heap.used_memory()
UsedMemoryDefault ==
    /\ ~exited
    /\ returned' = [NoReturn EXCEPT !.op = "used_memory",
                                    !.unit = used_memory_default,
                                    !.defaulted = TRUE,
                                    !.value = used_memory(used_memory_default),
                                    !.used = memory_in_use]
    /\ UNCHANGED <<m_Segments, capacity, memory_in_use, handles, errors,
                   exits_on_error, exited, exit_code, exit_by, nextData, objects>>

\* ------------------------------------------------------------- Allocator
\* T_* Allocator::allocate(n): the pointer returned is the new buffer address
AllocatorAllocate(n, size_of) ==
    /\ ~exited
    /\ nextData <= MaxAllocs
    /\ memory_in_use' = allocate_used(n * size_of)
    /\ m_Segments' = allocate_segments(Wrap(n * size_of))
    /\ capacity' = allocate_capacity
    /\ handles' = allocate_handles
    /\ nextData' = nextData + 1
    /\ objects' = [objects EXCEPT ![nextData] =
            [NoObject EXCEPT !.origin = "Allocator"]]
    /\ returned' = [NoReturn EXCEPT !.op = "allocate", !.p = nextData,
                                    !.size = Wrap(n * size_of),
                                    !.segs = m_Segments, !.used = memory_in_use]
    /\ UNCHANGED <<errors, exits_on_error, exited, exit_code, exit_by>>

\* Heap::free(iterator&) without the update of the counter
free_iterator_used_kept(it) == memory_in_use

\* void Heap::free(std::vector<Segment>::iterator&): counter after the call
free_iterator_used(it) == Wrap(memory_in_use - m_Segments[it].size)

\* deallocate(p, n) straight after the allocate(n) that returned p
deallocate_follows_allocate(p) == returned.op = "allocate" /\ returned.p = p

\* deallocate(p, n) with an ownership check: a segment bound to a live
\* Pointer is refused like an unknown address
AllocatorDeallocate_owner_checked(p) ==
    /\ ~exited
    /\ LET it == FindData(m_Segments, p)
           owned == \E h \in 1..MaxHandles : Live(h) /\ handles[h].m_Ptr = p
       IN  IF it = 0 \/ owned
           THEN /\ returned' = [NoReturn EXCEPT !.op = "deallocate", !.p = p,
                                    !.threw = "std::bad_alloc",
                                    !.segs = m_Segments, !.used = memory_in_use]
                /\ UNCHANGED <<m_Segments, capacity, memory_in_use, handles, objects>>
           ELSE /\ memory_in_use' = free_iterator_used(it)
                /\ m_Segments' = Erase(m_Segments, it)
                /\ capacity' = Len(m_Segments) - 1
                /\ handles' = Invalidate(handles)
                /\ objects' = [objects EXCEPT ![p].removed = @ + 1]
                /\ returned' = [NoReturn EXCEPT !.op = "deallocate", !.p = p,
                                    !.segs = m_Segments, !.used = memory_in_use]
    /\ UNCHANGED <<errors, exits_on_error, exited, exit_code, exit_by, nextData>>

\* void Allocator::deallocate(p, n); when no segment has p as its data
\* pointer the call throws std::bad_alloc before anything is changed.
AllocatorDeallocate(p) ==
    /\ ~exited
    /\ LET it == FindData(m_Segments, p)
       IN  IF it = 0
           THEN /\ returned' = [NoReturn EXCEPT !.op = "deallocate", !.p = p,
                                    !.threw = "std::bad_alloc",
                                    !.segs = m_Segments, !.used = memory_in_use]
                /\ UNCHANGED <<m_Segments, capacity, memory_in_use, handles, objects>>
           ELSE /\ memory_in_use' = free_iterator_used(it)
                /\ m_Segments' = Erase(m_Segments, it)
                /\ capacity' = Len(m_Segments) - 1            \* shrink_to_fit
                /\ handles' = Invalidate(handles)
                /\ objects' = [objects EXCEPT ![p].removed = @ + 1]
                /\ returned' =
                      IF deallocate_follows_allocate(p)
                      THEN [returned EXCEPT !.op = "deallocate", !.roundtrip = TRUE]
                      ELSE [NoReturn EXCEPT !.op = "deallocate", !.p = p,
                                    !.segs = m_Segments, !.used = memory_in_use]
    /\ UNCHANGED <<errors, exits_on_error, exited, exit_code, exit_by, nextData>>

\* ------------------------------------------------- free-standing errors
\* base_error(message) / BadConstruct() / IndexOutOfBounds()
NewErrorOf(kind) ==
    CASE kind = "base_error" -> base_error_ctor("generic failure", -1)
      [] kind = "BadConstruct" ->
            BadConstruct("An error occurred while constructing object.")
      [] kind = "IndexOutOfBounds" -> IndexOutOfBounds_default

ErrorConstruct(kind) ==
    /\ ~exited
    /\ returned' = NoReturn
    /\ FreeErrors # {}
    /\ errors' = [errors EXCEPT ![NewError] =
            [st |-> "alive", kind |-> kind, err |-> NewErrorOf(kind),
             dismissed |-> FALSE, from |-> 0]]
    /\ UNCHANGED <<m_Segments, capacity, memory_in_use, handles, exits_on_error,
                   exited, exit_code, exit_by, nextData, objects>>

ErrorDontExit(e) ==
    /\ ~exited
    /\ returned' = NoReturn
    /\ errors[e].st = "alive"
    /\ errors' = [errors EXCEPT ![e].err = dont_exit(@), ![e].dismissed = TRUE]
    /\ UNCHANGED <<m_Segments, capacity, memory_in_use, handles, exits_on_error,
                   exited, exit_code, exit_by, nextData, objects>>

\* T e2{std::move(e1)} for T the dynamic type of e1
ErrorMove(src) ==
    /\ ~exited
    /\ returned' = NoReturn
    /\ errors[src].st = "alive"
    /\ FreeErrors # {}
    /\ LET r == IF errors[src].kind = "base_error"
                THEN base_error_move(errors[src].err)
                ELSE derived_error_move(errors[src].err)
       IN  errors' = [errors EXCEPT
                ![NewError] = [st |-> "alive", kind |-> errors[src].kind,
                               err |-> r[1], dismissed |-> FALSE,
                               from |-> src],
                ![src].err = r[2],
                ![src].dismissed = TRUE]
    /\ UNCHANGED <<m_Segments, capacity, memory_in_use, handles, exits_on_error,
                   exited, exit_code, exit_by, nextData, objects>>

\* static_cast<base_error&>(dst) = std::move(src)
ErrorAssign(dst, src) ==
    /\ ~exited
    /\ returned' = NoReturn
    /\ errors[dst].st = "alive"
    /\ errors[src].st = "alive"
    /\ IF dst = src
       THEN errors' = [errors EXCEPT
                ![src].err = base_error_assign_self(@),
                ![src].dismissed = TRUE]
       ELSE LET r == base_error_assign(errors[dst].err, errors[src].err)
            IN  errors' = [errors EXCEPT
                    ![dst].err = r[1],
                    ![src].err = r[2],
                    ![src].dismissed = TRUE]
    /\ UNCHANGED <<m_Segments, capacity, memory_in_use, handles, exits_on_error,
                   exited, exit_code, exit_by, nextData, objects>>

\* x.Error() = std::move(e): Error() hands out the handle's base_error&
PointerErrorAssign(h, e) ==
    /\ ~exited
    /\ returned' = NoReturn
    /\ InScope(h)
    /\ errors[e].st = "alive"
    /\ LET r == base_error_assign(handles[h].error, errors[e].err)
       IN  /\ handles' = [handles EXCEPT ![h].error = r[1]]
           /\ errors' = [errors EXCEPT ![e].err = r[2], ![e].dismissed = TRUE]
    /\ UNCHANGED <<m_Segments, capacity, memory_in_use, exits_on_error,
                   exited, exit_code, exit_by, nextData, objects>>

\* ~base_error()
ErrorDestroy(e) ==
    /\ ~exited
    /\ returned' = NoReturn
    /\ errors[e].st = "alive"
    /\ IF errors[e].err.exit
       THEN ExitFromError(errors[e].err._error_code,
                [kind |-> "error", id |-> e, dismissed |-> errors[e].dismissed])
       ELSE /\ errors' = [errors EXCEPT ![e] =
                    [NoError EXCEPT !.st = "destroyed",
                                    !.dismissed = errors[e].dismissed,
                                    !.from = errors[e].from]]
            /\ UNCHANGED <<m_Segments, capacity, memory_in_use, handles,
                           exits_on_error, exited, exit_code, exit_by>>
    /\ UNCHANGED <<nextData, objects>>

\* return from main once every automatic object is gone: ~Heap() runs, then
\* the hook
MainReturn ==
    /\ ~exited
    /\ returned' = NoReturn
    /\ \A h \in 1..MaxHandles : ~InScope(h)
    /\ \A e \in 1..MaxErrors : errors[e].st # "alive"
    /\ exited' = TRUE
    /\ exit_code' = 0
    /\ \E hook \in HookOutcomes(exits_on_error) :
          exit_by' = [kind |-> "main", id |-> 0, dismissed |-> FALSE,
                      hook |-> hook]
    /\ m_Segments' = Heap_destroyed
    /\ capacity' = 0
    /\ UNCHANGED <<memory_in_use, handles, errors, exits_on_error, nextData,
                   objects>>

\* ---------------------------------------------------------- specification
\* the heap, its handles and the allocator adapter
Next ==
    \/ \E s \in SizeOfT, o \in Outcomes : AllocateConstructed(s, o)
    \/ \E s \in SizeOfT, c \in Counts, o \in Outcomes, b \in 0..MaxCount :
            AllocateConstructedN(s, c, o, b)
    \/ \E h \in 1..MaxHandles : MovePointer(h)
    \/ \E h \in 1..MaxHandles : Drop(h)
    \/ \E n \in Counts, s \in SizeOfT : AllocatorAllocate(n, s)
    \/ \E p \in 0..MaxAllocs : AllocatorDeallocate(p)

Spec == Init /\ [][Next]_vars

\* the error channel: free-standing errors next to the handles of one
\* allocation, which may fail
\* Pointer and error instances created so far
Instances ==
    Cardinality({ h \in 1..MaxHandles : handles[h].st # "none" })
        + Cardinality({ e \in 1..MaxErrors : errors[e].st # "none" })

NextErrors ==
    \/ \E o \in Outcomes : nextData = 1 /\ AllocateConstructed(1, o)
    \/ \E h \in 1..MaxHandles : Instances < MaxInstances /\ MovePointer(h)
    \/ \E h \in 1..MaxHandles : PointerDontExit(h)
    \/ \E h \in 1..MaxHandles : Drop(h)
    \/ \E k \in ErrorKinds : Instances < MaxInstances /\ ErrorConstruct(k)
    \/ \E e \in 1..MaxErrors : ErrorDontExit(e)
    \/ \E e \in 1..MaxErrors : Instances < MaxInstances /\ ErrorMove(e)
    \/ \E d \in 1..MaxErrors, e \in 1..MaxErrors : ErrorAssign(d, e)
    \/ \E e \in 1..MaxErrors : ErrorDestroy(e)
    \/ MainReturn

SpecErrors == Init /\ [][NextErrors]_vars

TypeOK ==
    /\ memory_in_use \in 0..(SizeMod - 1)
    /\ capacity >= Len(m_Segments)
    /\ \A h \in 1..MaxHandles :
         (~exited /\ handles[h].memsegment # Dangling) =>
            handles[h].memsegment \in 1..Len(m_Segments)

\* allocate_constructed and scope exits only
NextAllocDrop ==
    \/ \E s \in SizeOfT, o \in {"ok", "std_exception"} : AllocateConstructed(s, o)
    \/ \E h \in 1..MaxHandles : Drop(h)

SpecAllocDrop == Init /\ [][NextAllocDrop]_vars

\* errors assigned to a handle through Error()
NextPointerError ==
    \/ \E o \in {"ok", "std_exception"} : nextData = 1 /\ AllocateConstructed(1, o)
    \/ \E k \in ErrorKinds : Instances < MaxInstances /\ ErrorConstruct(k)
    \/ \E h \in 1..MaxHandles, e \in 1..MaxErrors : PointerErrorAssign(h, e)
    \/ \E h \in 1..MaxHandles : PointerDontExit(h)
    \/ \E h \in 1..MaxHandles : Instances < MaxInstances /\ MovePointer(h)
    \/ \E h \in 1..MaxHandles : Drop(h)
    \/ \E e \in 1..MaxErrors : ErrorDestroy(e)

SpecPointerError == Init /\ [][NextPointerError]_vars

\* array handles and their subscript operator
NextArray ==
    \/ \E s \in SizeOfT, c \in Counts, o \in {"ok", "std_exception"}, b \in 0..MaxCount :
            AllocateConstructedN(s, c, o, b)
    \/ \E h \in 1..MaxHandles, i \in 0..(MaxCount + 1) : Subscript(h, i)
    \/ \E h \in 1..MaxHandles : MovePointer(h)
    \/ \E h \in 1..MaxHandles : Drop(h)

SpecArray == Init /\ [][NextArray]_vars

\* subscripting an array handle whose Error() has been assigned to
NextArrayError ==
    \/ \E c \in Counts : nextData = 1 /\ AllocateConstructedN(1, c, "ok", c)
    \/ \E k \in ErrorKinds : Instances < MaxInstances /\ ErrorConstruct(k)
    \/ \E h \in 1..MaxHandles, e \in 1..MaxErrors : PointerErrorAssign(h, e)
    \/ \E h \in 1..MaxHandles : PointerDontExit(h)
    \/ \E h \in 1..MaxHandles, i \in 0..(MaxCount + 1) : Subscript(h, i)
    \/ \E h \in 1..MaxHandles : Drop(h)
    \/ \E e \in 1..MaxErrors : ErrorDestroy(e)

SpecArrayError == Init /\ [][NextArrayError]_vars

\* byte counts asked of Allocator<char>
UsedCounts ==
    {2 ^ k : k \in 0..MaxShift} \cup {3 * 2 ^ k : k \in 0..(MaxShift - 2)}
        \cup {UnitBytes("Kilobyte")}

\* the usage figure next to the allocator adapter
NextUsed ==
    \/ \E n \in UsedCounts : AllocatorAllocate(n, 1)
    \/ \E p \in 1..MaxAllocs : AllocatorDeallocate(p)
    \/ \E u \in SizeTypes : UsedMemory(u)
    \/ UsedMemoryDefault

SpecUsed == Init /\ [][NextUsed]_vars

\* the allocator adapter next to a scalar handle
NextAllocator ==
    \/ \E n \in Counts, s \in SizeOfT : AllocatorAllocate(n, s)
    \/ \E p \in 0..MaxAllocs : AllocatorDeallocate(p)
    \/ \E s \in SizeOfT : AllocateConstructed(s, "ok")
    \/ \E h \in 1..MaxHandles : Drop(h)

SpecAllocator == Init /\ [][NextAllocator]_vars

\* handles that are allocated, moved and dropped
NextMoveDrop ==
    \/ \E s \in SizeOfT : AllocateConstructed(s, "ok")
    \/ \E h \in 1..MaxHandles : MovePointer(h)
    \/ \E h \in 1..MaxHandles : Drop(h)

SpecMoveDrop == Init /\ [][NextMoveDrop]_vars

\* ------------------------------------------------------------ properties
RECURSIVE SumSizes(_)
SumSizes(segs) ==
    IF segs = <<>> THEN 0 ELSE Head(segs).size + SumSizes(Tail(segs))

StoredData == { m_Segments[i].data : i \in 1..Len(m_Segments) }

HandlesOf(d) == { h \in 1..MaxHandles : handles[h].st # "none" /\ handles[h].m_Ptr = d }

NoneInScope == \A h \in 1..MaxHandles : ~InScope(h)

\* C1: once every handle made by allocate_constructed has gone out of
\* scope, whatever the order of the drops, memory_in_use is 0.
C1_AllDroppedCounterZero ==
    (~exited /\ nextData > 1 /\ NoneInScope) => memory_in_use = 0

\* C2: in every reachable state memory_in_use equals the sum of the size
\* fields of the segments held in m_Segments.
C2_CounterEqualsSum ==
    memory_in_use = Wrap(SumSizes(m_Segments))

\* C3: when a handle was move-constructed into a destination and both the
\* source and the destination have been dropped, the object's destructor
\* has run exactly once and its segment has left the store, removed once.
C3_MovedThenDroppedOnce ==
    \A s \in 1..MaxHandles, d \in 1..MaxHandles :
        ( /\ ~exited
          /\ handles[d].from = s
          /\ handles[s].st = "dropped"
          /\ handles[d].st = "dropped"
          /\ ~handles[d].moved
          /\ ~handles[d].array
          /\ HandlesOf(handles[d].m_Ptr) = {s, d} )
        => /\ objects[handles[d].m_Ptr].destructed = 1
           /\ objects[handles[d].m_Ptr].removed = 1
           /\ handles[d].m_Ptr \notin StoredData

\* C4: for every segment at most one handle bound to it is live
\* (in scope, moved = false, freed = false).
C4_AtMostOneLive ==
    \A d \in 1..MaxAllocs :
        Cardinality({ h \in 1..MaxHandles : Live(h) /\ handles[h].m_Ptr = d }) <= 1

\* C5: a step that drops a live handle removes from the store the segment
\* the handle was bound to at allocation, and no other segment.
C5_DropRemovesOwnSegment ==
    [][ \A h \in 1..MaxHandles :
          (Live(h) /\ ~exited' /\ handles'[h].st = "dropped")
          => { m_Segments'[i].data : i \in 1..Len(m_Segments') }
               = StoredData \ {handles[h].m_Ptr} ]_vars

\* C6: while a handle is in scope and its segment is in the store, the
\* handle's memsegment reference refers to that segment.
C6_ReferenceStable ==
    \A h \in 1..MaxHandles :
        (InScope(h) /\ handles[h].m_Ptr \in StoredData)
        => /\ handles[h].memsegment # Dangling
           /\ m_Segments[handles[h].memsegment].data = handles[h].m_Ptr

\* C7: whenever the constructor threw inside allocate_constructed, whatever
\* was thrown, the call returned a handle bound to the new segment.
C7_ThrowAlwaysReturnsHandle ==
    \A d \in 1..MaxAllocs :
        (~exited /\ objects[d].origin = "allocate_constructed"
                 /\ objects[d].thrown # "ok")
        => \E h \in HandlesOf(d) : handles[h].from = 0

\* C8: the handle returned by an allocate_constructed whose constructor
\* threw has a non-empty Error().what() and Error().error_code() = -2.
C8_FailedHandleCarriesError ==
    \A h \in 1..MaxHandles :
        ( /\ InScope(h)
          /\ handles[h].from = 0
          /\ ~handles[h].moved
          /\ ~handles[h].dismissed
          /\ objects[handles[h].m_Ptr].origin = "allocate_constructed"
          /\ objects[handles[h].m_Ptr].thrown = "std_exception" )
        => /\ what(handles[h].error) # ""
           /\ error_code(handles[h].error) = -2

\* C9: when construction failed in allocate_constructed and dont_exit() was
\* never called on any handle of that segment, then by the time the owning
\* handle has gone out of scope the process has exited with code -2.
C9_UndismissedFailureExits ==
    (\E h \in 1..MaxHandles :
        /\ handles[h].st = "dropped"
        /\ ~handles[h].moved
        /\ objects[handles[h].m_Ptr].origin = "allocate_constructed"
        /\ objects[handles[h].m_Ptr].thrown = "std_exception"
        /\ ~objects[handles[h].m_Ptr].dismissed)
    => (exited /\ exit_code = -2)

\* C10: the destructor of an error instance on which dont_exit() has been
\* called never terminates the process: whenever a destructor has called
\* std::exit, it was that of an instance never dismissed.  In particular
\* no handle of a failed allocate_constructed that was dismissed, moved
\* and dropped has ended the process.
C10_DismissedNeverExits ==
    /\ exit_by.kind # "none" => ~exit_by.dismissed
    /\ \A e \in 1..MaxErrors :
         (errors[e].st = "alive" /\ errors[e].dismissed) => ~errors[e].err.exit
    /\ \A h \in 1..MaxHandles :
         (InScope(h) /\ handles[h].dismissed) => ~handles[h].error.exit

\* C10's case: a dismissed free-standing error has been destroyed, and the
\* handle of a failed allocate_constructed was dismissed, moved and its
\* destination dropped, with the process still running.
C10_Witness ==
    /\ ~exited
    /\ \E e \in 1..MaxErrors : errors[e].st = "destroyed" /\ errors[e].dismissed
    /\ \E s \in 1..MaxHandles, d \in 1..MaxHandles :
         /\ handles[d].from = s
         /\ handles[d].from_dismissed
         /\ handles[s].from = 0
         /\ handles[s].st = "dropped"
         /\ handles[d].st = "dropped"
         /\ ~handles[d].moved
         /\ objects[handles[d].m_Ptr].thrown = "std_exception"
         /\ objects[handles[d].m_Ptr].dismissed

\* the code each error class passes to base_error(message, code)
KindCode(kind) ==
    CASE kind = "base_error" -> -1
      [] kind = "BadConstruct" -> -2
      [] kind = "IndexOutOfBounds" -> -3

\* C11: an error instance constructed with a message and a code is armed
\* and carries the code of its class (-1 base_error, -2 BadConstruct,
\* -3 IndexOutOfBounds); it stays armed while dont_exit() has not been
\* called on it, and when such an instance is destroyed the process
\* terminates with exactly the code the instance carries.
C11_ArmedExitsWithCode ==
    /\ [](\A e \in 1..MaxErrors :
            (errors[e].st = "alive" /\ errors[e].from = 0 /\ ~errors[e].dismissed)
            => errors[e].err.exit)
    /\ [][ /\ \A k \in ErrorKinds :
                ErrorConstruct(k) =>
                    /\ errors'[NewError].err.exit
                    /\ errors'[NewError].err._error_code = KindCode(k)
           /\ \A e \in 1..MaxErrors :
                ( /\ errors[e].st = "alive"
                  /\ errors[e].from = 0
                  /\ ~errors[e].dismissed
                  /\ ErrorDestroy(e) )
                => (exited' /\ exit_code' = errors[e].err._error_code) ]_vars

\* C12: move-constructing a base_error leaves the source disarmed and gives
\* the new instance the source's message, code and armed flag as they were
\* before the move; when the source was armed, exactly the new instance is
\* armed afterwards.
C12_MoveConstructTransfers ==
    [][ \A s \in 1..MaxErrors :
          (errors[s].kind = "base_error" /\ ErrorMove(s))
          => /\ ~errors'[s].err.exit
             /\ what(errors'[NewError].err) = what(errors[s].err)
             /\ error_code(errors'[NewError].err) = error_code(errors[s].err)
             /\ errors'[NewError].err.exit = errors[s].err.exit ]_vars

\* C12's case: a base_error made by moving from an armed base_error is
\* alive and armed next to its disarmed source.
C12_Witness ==
    \E s \in 1..MaxErrors, d \in 1..MaxErrors :
        /\ errors[d].st = "alive" /\ errors[s].st = "alive"
        /\ errors[d].from = s
        /\ errors[s].from = 0
        /\ errors[s].kind = "base_error"
        /\ errors[d].err.exit
        /\ what(errors[d].err) = "generic failure"
        /\ ~errors[s].err.exit

\* C13: move-assigning an armed error into a distinct destination disarms
\* the source and arms the destination, which afterwards carries the
\* source's message and code (and so ends the process with that code when
\* destroyed undismissed).
C13_MoveAssignArms ==
    [][ \A d \in 1..MaxErrors, s \in 1..MaxErrors :
          (d # s /\ errors[s].err.exit /\ ErrorAssign(d, s))
          => /\ ~errors'[s].err.exit
             /\ errors'[d].err.exit
             /\ what(errors'[d].err) = what(errors[s].err)
             /\ error_code(errors'[d].err) = error_code(errors[s].err) ]_vars

\* C14: after a Pointer is move-constructed from a source whose error has
\* message m, code c and armed flag a, the new handle's Error() has message
\* m, code c and armed flag a, and the source's error is disarmed.
C14_PointerMoveTransfersError ==
    [][ \A src \in 1..MaxHandles :
          MovePointer(src)
          => /\ what(handles'[NewHandle].error) = what(handles[src].error)
             /\ error_code(handles'[NewHandle].error) = error_code(handles[src].error)
             /\ handles'[NewHandle].error.exit = handles[src].error.exit
             /\ ~handles'[src].error.exit ]_vars

\* C15: on an array handle made by allocate_constructed_n(count, ...),
\* operator[](i) with i >= count (i = count included) leaves an
\* IndexOutOfBounds error with code -3 in that handle's Error().
C15_SubscriptBeyondCountSetsError ==
    [][ \A h \in 1..MaxHandles, i \in 0..(MaxCount + 1) :
          ( /\ ~handles[h].moved
            /\ handles[h].m_Ptr # NullPtr
            /\ i >= objects[handles[h].m_Ptr].count
            /\ Subscript(h, i) )
          => /\ error_code(handles'[h].error) = -3
             /\ what(handles'[h].error) = "Index out of bounds" ]_vars

\* binary places kept when a float is compared with an exact quotient
FracBits == 30 - SizeBits

\* floor(v * 2^k) for a float v >= 0
Scaled(v, k) ==
    IF v.e + k >= 0 THEN v.m * 2 ^ (v.e + k)
    ELSE IF -(v.e + k) >= Mantissa THEN 0
    ELSE v.m \div 2 ^ (-(v.e + k))

Abs(n) == IF n < 0 THEN -n ELSE n

\* C16: used_memory(unit) returns the usage counter divided by the unit's
\* byte value (Byte 1, Kibibyte 1024, Mibibyte 1048576, Gibibyte 1073741824,
\* Kilobyte 1000, Megabyte 1000000, Gigabyte 1000000000): the integer
\* quotient exactly when the unit divides the counter and otherwise the
\* quotient to FracBits binary places; the unit is Kibibyte when none is
\* given; and with a single 2048-byte segment in the store
\* used_memory(Kibibyte) is 2.
C16_UsedMemoryIsCounterOverUnit ==
    returned.op = "used_memory" =>
        LET b == UnitBytes(returned.unit)
            c == returned.used
            v == returned.value
        IN  /\ returned.unit \in SizeTypes
            /\ c % b = 0 => (v.e >= 0 /\ v.m * 2 ^ v.e = c \div b)
            /\ Abs(Scaled(v, FracBits) - (c * 2 ^ FracBits) \div b) <= 1
            /\ returned.defaulted => returned.unit = "Kibibyte"
            /\ ( /\ Len(m_Segments) = 1
                 /\ m_Segments[1].size = 2048
                 /\ c = 2048
                 /\ returned.unit = "Kibibyte" )
               => v = to_float(2)

\* C16's case: one 2048-byte segment, used_memory() called with its default
\* unit, 2 returned.
C16_Witness ==
    /\ Len(m_Segments) = 1
    /\ m_Segments[1].size = 2048
    /\ memory_in_use = 2048
    /\ returned.op = "used_memory"
    /\ returned.defaulted
    /\ returned.value = [m |-> 1, e |-> 1]

\* positions of the segments of segs whose data pointer is p
PositionsOf(segs, p) == { i \in 1..Len(segs) : segs[i].data = p }

\* C17: Allocator::deallocate(p, n) with a p that is the data pointer of no
\* segment in the store throws std::bad_alloc and leaves m_Segments and
\* memory_in_use as they were when it was called.
C17_DeallocateUnknownThrows ==
    ( /\ returned.op = "deallocate"
      /\ ~returned.roundtrip
      /\ PositionsOf(returned.segs, returned.p) = {} )
    => /\ returned.threw = "std::bad_alloc"
       /\ m_Segments = returned.segs
       /\ memory_in_use = returned.used

\* C17's case: deallocate has thrown for a pointer that was handed out by
\* allocate and released by an earlier deallocate, with another segment
\* still in the store.
C17_Witness ==
    /\ \A h \in 1..MaxHandles : handles[h].st = "none"
    /\ returned.op = "deallocate"
    /\ returned.threw = "std::bad_alloc"
    /\ returned.p # NullPtr
    /\ objects[returned.p].origin = "Allocator"
    /\ objects[returned.p].removed = 1
    /\ m_Segments # <<>>
    /\ m_Segments = returned.segs

\* C18: dropping a moved-from handle is a no-op: no destructor of the
\* contained object runs and m_Segments and memory_in_use are unchanged,
\* so the segment stays in the store for the destination of the move.
C18_DropOfMovedFromIsNoop ==
    [][ \A h \in 1..MaxHandles :
          (handles[h].moved /\ Drop(h))
          => /\ m_Segments' = m_Segments
             /\ memory_in_use' = memory_in_use
             /\ objects' = objects
             /\ ~exited' ]_vars

\* C18's case: a moved-from handle has been dropped while the destination
\* of the move is live and the segment, its object not destructed, is in
\* the store.
C18_Witness ==
    \E s \in 1..MaxHandles, d \in 1..MaxHandles :
        /\ handles[d].from = s
        /\ handles[s].st = "dropped"
        /\ handles[s].moved
        /\ Live(d)
        /\ handles[d].m_Ptr \in StoredData
        /\ objects[handles[d].m_Ptr].destructed = 0
        /\ memory_in_use > 0

\* C20: Allocator::allocate(n) appends one segment of n * sizeof(T) bytes
\* whose data pointer it returns and raises memory_in_use by that amount; a
\* deallocate(p, n) with a pointer p of a stored segment removes exactly
\* that segment and lowers the counter by its size; allocate immediately
\* followed by deallocate of the returned pointer leaves m_Segments and
\* memory_in_use as they were before the allocate.
C20_AllocateDeallocateRoundTrip ==
    /\ returned.op = "allocate" =>
          /\ Len(m_Segments) = Len(returned.segs) + 1
          /\ SubSeq(m_Segments, 1, Len(returned.segs)) = returned.segs
          /\ m_Segments[Len(m_Segments)].size = returned.size
          /\ m_Segments[Len(m_Segments)].data = returned.p
          /\ memory_in_use = Wrap(returned.used + returned.size)
    /\ ( /\ returned.op = "deallocate"
         /\ ~returned.roundtrip
         /\ PositionsOf(returned.segs, returned.p) # {} ) =>
          \E i \in PositionsOf(returned.segs, returned.p) :
              /\ PositionsOf(returned.segs, returned.p) = {i}
              /\ returned.threw = "nothing"
              /\ Len(m_Segments) = Len(returned.segs) - 1
              /\ \A j \in 1..Len(m_Segments) :
                    m_Segments[j] = returned.segs[IF j < i THEN j ELSE j + 1]
              /\ memory_in_use = Wrap(returned.used - returned.segs[i].size)
    /\ (returned.op = "deallocate" /\ returned.roundtrip) =>
          /\ returned.threw = "nothing"
          /\ m_Segments = returned.segs
          /\ memory_in_use = returned.used

\* C20's case: allocate was followed at once by deallocate of the pointer
\* it returned, with an older segment in the store throughout.
C20_Witness ==
    /\ returned.op = "deallocate"
    /\ returned.roundtrip
    /\ returned.size > 0
    /\ objects[returned.p].removed = 1
    /\ returned.segs # <<>>
    /\ m_Segments = returned.segs
    /\ memory_in_use = returned.used

\* C19: when the process has terminated, the exit hook has released all
\* remaining segments (m_Segments emptied, memory_in_use set to 0) if and
\* only if the destructor of an armed error ran earlier (exits_on_error);
\* otherwise the hook has left the store untouched.
C19_HookReleasesIffFlagged ==
    exited =>
        /\ exits_on_error <=> exit_by.hook = "released"
        /\ exits_on_error => (m_Segments = <<>> /\ memory_in_use = 0)
        /\ ~exits_on_error => exit_by.hook = "skipped"

\* C21: no path leads back from the terminal states of a Pointer instance:
\* once moved is true the instance keeps it and is never live again, and
\* once its destructor has run (freed) the instance never changes again, so
\* it frees and destructs nothing more, whatever moves and drops follow.
C21_TerminalStatesAreTerminal ==
    [][ ~exited' =>
          \A h \in 1..MaxHandles :
            /\ handles[h].moved =>
                  /\ handles'[h].moved
                  /\ ~Live(h)'
            /\ handles[h].freed =>
                  /\ handles'[h] = handles[h]
                  /\ ~Drop(h) ]_vars

\* C21's case: a moved-from handle was moved from a second time and is
\* still inert, and a handle made from it has been dropped.
C21_Witness ==
    \E s \in 1..MaxHandles, d \in 1..MaxHandles, c \in 1..MaxHandles :
        /\ d # c
        /\ handles[d].from = s
        /\ handles[c].from = s
        /\ InScope(s)
        /\ handles[s].moved
        /\ handles[d].st = "dropped"
        /\ handles[d].freed
        /\ InScope(c)

\* C22: dropping a live handle whose construction succeeded runs the
\* destructor once per element the handle was allocated with (count for
\* allocate_constructed_n, one for allocate_constructed), whatever else was
\* allocated or freed in between, and removes the handle's segment.
C22_DropDestructsCountElements ==
    [][ \A h \in 1..MaxHandles :
          LET d == handles[h].m_Ptr
          IN  ( /\ Live(h)
                /\ objects[d].thrown = "ok"
                /\ d \in StoredData
                /\ Drop(h) )
              => /\ objects'[d].destructed = objects[d].destructed +
                        (IF handles[h].array THEN objects[d].count ELSE 1)
                 /\ objects'[d].removed = objects[d].removed + 1 ]_vars

\* C23: a Pointer made by move construction from an array handle has the
\* element count that was given to allocate_constructed_n as its
\* array_size, so that operator[] checks against the same bound.
C23_MoveKeepsArraySize ==
    \A h \in 1..MaxHandles :
        ( /\ handles[h].st # "none"
          /\ handles[h].array
          /\ handles[h].from # 0 )
        => handles[h].array_size = objects[handles[h].m_Ptr].count

\* C24: operator[](i) on an array handle with i below its element count
\* records no error: the message, code and armed flag of the handle's
\* Error() are the same after the call as before it, and the process goes
\* on.
C24_InRangeSubscriptKeepsError ==
    [][ \A h \in 1..MaxHandles, i \in 0..(MaxCount + 1) :
          ( /\ InScope(h)
            /\ handles[h].array
            /\ i < objects[handles[h].m_Ptr].count
            /\ Subscript(h, i) )
          => /\ ~exited'
             /\ handles'[h].error = handles[h].error ]_vars

\* C24's case: an in-range subscript (not the first element) has returned
\* on a handle whose Error() had been assigned a BadConstruct or
\* IndexOutOfBounds before.
C24_Witness ==
    /\ returned.op = "operator[]"
    /\ returned.index >= 1
    /\ returned.index < objects[returned.p].count
    /\ \E h \in 1..MaxHandles :
          /\ InScope(h)
          /\ handles[h].m_Ptr = returned.p
          /\ handles[h].error._error_code \in {-2, -3}

\* C25: Allocator::deallocate(p, n) checks no ownership: for every p that is
\* the data pointer of a stored segment, one bound to a live Pointer
\* included, it removes that segment and lowers memory_in_use by its size
\* without throwing, and a live Pointer bound to p stays live, bound to a
\* segment that is no longer in the store.
C25_DeallocateIgnoresOwnership ==
    [][ \A p \in 0..MaxAllocs :
          LET it == FindData(m_Segments, p)
          IN  ( it # 0 /\ AllocatorDeallocate(p) )
              => /\ returned'.threw = "nothing"
                 /\ p \notin StoredData'
                 /\ Len(m_Segments') = Len(m_Segments) - 1
                 /\ memory_in_use' = Wrap(memory_in_use - m_Segments[it].size)
                 /\ \A h \in 1..MaxHandles :
                       (Live(h) /\ handles[h].m_Ptr = p)
                       => (Live(h)' /\ handles'[h].m_Ptr = p) ]_vars

\* C25's case: deallocate has just removed the segment of a handle made by
\* allocate_constructed, and the handle is still live.
C25_Witness ==
    /\ returned.op = "deallocate"
    /\ returned.threw = "nothing"
    /\ returned.p \notin StoredData
    /\ objects[returned.p].origin = "allocate_constructed"
    /\ objects[returned.p].removed = 1
    /\ \E h \in 1..MaxHandles : Live(h) /\ handles[h].m_Ptr = returned.p

\* C26: a call of Heap::free that removes no segment (nothing in the store
\* matches) leaves memory_in_use as it was, so that the counter is not
\* lowered for a segment that is not there and does not wrap.
C26_NoRemovalNoDecrement ==
    [][ \A h \in 1..MaxHandles :
          ( /\ InScope(h)
            /\ ~free_is_noop(handles[h])
            /\ Drop(h)
            /\ ~exited'
            /\ m_Segments' = m_Segments )
          => memory_in_use' = memory_in_use ]_vars

\* C27: no destructor runs on an object whose constructor did not complete:
\* when construction threw in allocate_constructed, or at some element of
\* allocate_constructed_n, the destructor calls made on the storage never
\* outnumber the objects that were constructed in it.
C27_DestructsOnlyConstructed ==
    \A d \in 1..MaxAllocs :
        objects[d].thrown = "std_exception"
        => objects[d].destructed <= objects[d].constructed

\* C28: moving an error creates no armedness: the object move-constructed
\* from a source that is not armed (dismissed with dont_exit()) is not armed
\* either, whatever the error type, and a move never raises the number of
\* armed instances.
C28_MoveCreatesNoArmedness ==
    [][ \A s \in 1..MaxErrors :
          ( errors[s].st = "alive" /\ ErrorMove(s) )
          => /\ ~errors[s].err.exit =>
                    \A e \in 1..MaxErrors :
                        (errors[e].st = "none" /\ errors'[e].st = "alive")
                        => ~errors'[e].err.exit
             /\ Cardinality({e \in 1..MaxErrors :
                        errors'[e].st = "alive" /\ errors'[e].err.exit})
                  <= Cardinality({e \in 1..MaxErrors :
                        errors[e].st = "alive" /\ errors[e].err.exit}) ]_vars

====
